---- MODULE Spec2Model ----
(***************************************************************************)
(* Model of media_chronological_prefix.py (and of the older variant        *)
(* media_chronological_rename.py, whose resolver, generator and rename     *)
(* loop are the same code): capture-date resolution, fallback selection,   *)
(* prefixed-filename generation with collision counters, and the rename    *)
(* phase.                                                                  *)
(*                                                                         *)
(* Strings are sequences of one-character strings, so that formatting,     *)
(* parsing, os.path.splitext and the already-prefixed pattern are computed *)
(* character by character.  A timestamp is a record; kind "date" is a      *)
(* datetime.date (no microsecond attribute), kind "datetime" a             *)
(* datetime.datetime.                                                      *)
(***************************************************************************)
EXTENDS Integers, Sequences, FiniteSets

VARIABLES
    pc,              \* position in main()
    platform,        \* "posix" or "nt": decides what os.rename does to an existing target
    disk,            \* directory contents: file name -> identity of the file's content
    file_list,       \* main: the names selected for the batch, in listing order
    files_data,      \* main: the list of file_info dictionaries
    existing_names,  \* main: the reserved-name set of the generation loop
    idx,             \* index of the for loop main() is in (1-based)
    prefixed_count,  \* prefix_files: count of successful renames
    errors,          \* prefix_files: list of <<filename, error>> pairs
    probe,           \* inputs and result of a single get_capture_date call
    answers          \* the prompts shown so far, each with the user's answer

vars == <<pc, platform, disk, file_list, files_data, existing_names, idx,
          prefixed_count, errors, probe, answers>>

\* Python's None, as a record so that it compares with timestamps
None == [kind |-> "None"]

-----------------------------------------------------------------------------
(* Characters and decimal formatting *)

DigitChars == <<"0", "1", "2", "3", "4", "5", "6", "7", "8", "9">>

IsDigit(c) == \E k \in 1..10 : DigitChars[k] = c

DigitValue(c) == (CHOOSE k \in 1..10 : DigitChars[k] = c) - 1

\* format(n, "02d"), "03d", "04d": zero-padded decimal, at least `width` characters
RECURSIVE Pad(_, _)
Pad(n, width) ==
    IF width <= 1 /\ n < 10
    THEN <<DigitChars[n + 1]>>
    ELSE Pad(n \div 10, width - 1) \o <<DigitChars[(n % 10) + 1]>>

\* str(n) for n >= 0
IntToStr(n) == Pad(n, 1)

-----------------------------------------------------------------------------
(* Timestamps *)

DateTime(y, mo, d, h, mi, s, us) ==
    [kind |-> "datetime", year |-> y, month |-> mo, day |-> d,
     hour |-> h, minute |-> mi, second |-> s, microsecond |-> us]

\* a datetime.date: no time fields and no microsecond attribute
Date(y, mo, d) == [kind |-> "date", year |-> y, month |-> mo, day |-> d]

\* hasattr(final_date, 'microsecond')
HasMicrosecond(t) == t.kind = "datetime"

\* a variant that writes the day before the month
StrftimeSwappedDayMonth(t) ==
    LET h  == IF t.kind = "datetime" THEN t.hour ELSE 0
        mi == IF t.kind = "datetime" THEN t.minute ELSE 0
        s  == IF t.kind = "datetime" THEN t.second ELSE 0
    IN  Pad(t.year, 4) \o <<"-">> \o Pad(t.day, 2) \o <<"-">> \o Pad(t.month, 2)
        \o <<" ">> \o Pad(h, 2) \o <<":">> \o Pad(mi, 2) \o <<":">> \o Pad(s, 2)

\* strftime('%Y-%m-%d %H:%M:%S') for a four-digit year; a date formats its
\* time fields as zero
Strftime(t) ==
    LET h  == IF t.kind = "datetime" THEN t.hour ELSE 0
        mi == IF t.kind = "datetime" THEN t.minute ELSE 0
        s  == IF t.kind = "datetime" THEN t.second ELSE 0
    IN  Pad(t.year, 4) \o <<"-">> \o Pad(t.month, 2) \o <<"-">> \o Pad(t.day, 2)
        \o <<" ">> \o Pad(h, 2) \o <<":">> \o Pad(mi, 2) \o <<":">> \o Pad(s, 2)

-----------------------------------------------------------------------------
(* os.path.splitext *)

\* str.rfind(c), 1-based; 0 when c does not occur
RFind(p, c) ==
    IF \E k \in 1..Len(p) : p[k] = c
    THEN CHOOSE k \in 1..Len(p) : p[k] = c /\ \A j \in (k + 1)..Len(p) : p[j] # c
    ELSE 0

\* a variant that splits at the last dot even when only dots precede it
SplitextAtLastDot(p) ==
    LET dotIndex == RFind(p, ".")
    IN  IF dotIndex > 0
        THEN <<SubSeq(p, 1, dotIndex - 1), SubSeq(p, dotIndex, Len(p))>>
        ELSE <<p, <<>> >>

\* os.path.splitext(p): the extension starts at the last dot, unless only dots
\* precede it in the last path component
Splitext(p) ==
    LET sepIndex == RFind(p, "/")
        dotIndex == RFind(p, ".")
    IN  IF dotIndex > sepIndex
           /\ \E k \in (sepIndex + 1)..(dotIndex - 1) : p[k] # "."
        THEN <<SubSeq(p, 1, dotIndex - 1), SubSeq(p, dotIndex, Len(p))>>
        ELSE <<p, <<>> >>

-----------------------------------------------------------------------------
(* generate_prefixed_filename *)

\* a variant that sets the milliseconds off with a blank
DatePrefixBlankMillis(final_date) ==
    IF HasMicrosecond(final_date) /\ final_date.microsecond > 0
    THEN LET milliseconds == final_date.microsecond \div 1000
         IN  Strftime(final_date) \o <<" ">> \o Pad(milliseconds, 3)
    ELSE Strftime(final_date)

\* a variant that rounds the microseconds to the nearest millisecond
DatePrefixRounded(final_date) ==
    IF HasMicrosecond(final_date) /\ final_date.microsecond > 0
    THEN LET milliseconds == (final_date.microsecond + 500) \div 1000
         IN  Strftime(final_date) \o <<".">> \o Pad(milliseconds, 3)
    ELSE Strftime(final_date)

\* the date_prefix local: milliseconds, microsecond // 1000 as three digits,
\* are appended only when microsecond > 0
DatePrefix(final_date) ==
    IF HasMicrosecond(final_date) /\ final_date.microsecond > 0
    THEN LET milliseconds == final_date.microsecond \div 1000
         IN  Strftime(final_date) \o <<".">> \o Pad(milliseconds, 3)
    ELSE Strftime(final_date)

\* f"{date_prefix} {base_name} ({counter}){extension}"
CounterName(date_prefix, base_name, extension, counter) ==
    date_prefix \o <<" ">> \o base_name \o <<" ", "(">> \o IntToStr(counter)
    \o <<")">> \o extension

\* the while True loop: the first counter >= `counter` whose name is unused
RECURSIVE CounterLoop(_, _, _, _, _)
CounterLoop(date_prefix, base_name, extension, names, counter) ==
    LET new_filename == CounterName(date_prefix, base_name, extension, counter)
    IN  IF new_filename \notin names
        THEN new_filename
        ELSE CounterLoop(date_prefix, base_name, extension, names, counter + 1)

\* a variant that tries the counter 1 and does not look whether it is reserved
generate_single_retry(file_info, names) ==
    LET date_prefix == DatePrefix(file_info.final_date)
        new_filename == date_prefix \o <<" ">> \o file_info.filename
    IN  IF new_filename \in names
        THEN LET parts == Splitext(file_info.filename)
             IN  CounterName(date_prefix, parts[1], parts[2], 1)
        ELSE new_filename

\* a variant whose counter search starts past every reserved name's count
generate_counter_past_reserved(file_info, names) ==
    LET date_prefix == DatePrefix(file_info.final_date)
        new_filename == date_prefix \o <<" ">> \o file_info.filename
        parts == Splitext(file_info.filename)
    IN  IF new_filename \in names
        THEN CounterLoop(date_prefix, parts[1], parts[2], names,
                         Cardinality(names) + 2)
        ELSE new_filename

\* Lines 320-345: the plain name, or on a collision the first counter name
\* that is not reserved
generate_prefixed_filename(file_info, names) ==
    LET final_date == file_info.final_date
        original_filename == file_info.filename
        date_prefix == DatePrefix(final_date)
        new_filename == date_prefix \o <<" ">> \o original_filename
    IN  IF new_filename \in names
        THEN LET parts == Splitext(original_filename)
             IN  CounterLoop(date_prefix, parts[1], parts[2], names, 1)
        ELSE new_filename

-----------------------------------------------------------------------------
(* datetime.strptime(value, '%Y:%m:%d %H:%M:%S') *)

ValueError == [kind |-> "ValueError"]

IsLeap(y) == (y % 4 = 0 /\ y % 100 # 0) \/ y % 400 = 0

DaysInMonth(y, m) ==
    IF m = 2 THEN (IF IsLeap(y) THEN 29 ELSE 28)
    ELSE IF m \in {4, 6, 9, 11} THEN 30 ELSE 31

\* number of digits at s[pos..], at most maxw
DigitRun(s, pos, maxw) ==
    LET W == {w \in 0..maxw : \A k \in pos..(pos + w - 1) : k <= Len(s) /\ IsDigit(s[k])}
    IN  CHOOSE w \in W : \A v \in W : v <= w

\* number of blanks at s[pos..]
SpaceRun(s, pos) ==
    LET W == {w \in 0..Len(s) : \A k \in pos..(pos + w - 1) : k <= Len(s) /\ s[k] = " "}
    IN  CHOOSE w \in W : \A v \in W : v <= w

RECURSIVE NumValue(_, _, _)
NumValue(s, pos, w) ==
    IF w = 0 THEN 0
    ELSE 10 * NumValue(s, pos, w - 1) + DigitValue(s[pos + w - 1])

CharAt(s, pos, c) == pos <= Len(s) /\ s[pos] = c

\* The directive patterns of _strptime: %Y is exactly four digits, the other
\* fields one or two digits within their range, a blank of the format matches
\* one or more blanks, and the whole value must be consumed.  The datetime
\* constructor then rejects a day beyond the month's end and a second above 59.
Strptime(s) ==
    LET wY  == DigitRun(s, 1, 4)
        pm  == 6
        wm  == DigitRun(s, pm, 2)
        pd  == pm + wm + 1
        wd  == DigitRun(s, pd, 2)
        ws  == SpaceRun(s, pd + wd)
        pH  == pd + wd + ws
        wH  == DigitRun(s, pH, 2)
        pM  == pH + wH + 1
        wM  == DigitRun(s, pM, 2)
        pS  == pM + wM + 1
        wS  == DigitRun(s, pS, 2)
        Y   == NumValue(s, 1, wY)
        m   == NumValue(s, pm, wm)
        d   == NumValue(s, pd, wd)
        H   == NumValue(s, pH, wH)
        M   == NumValue(s, pM, wM)
        S   == NumValue(s, pS, wS)
        matches ==
            /\ wY = 4 /\ CharAt(s, 5, ":")
            /\ wm >= 1 /\ m \in 1..12 /\ CharAt(s, pm + wm, ":")
            /\ wd >= 1 /\ d \in 1..31
            /\ ws >= 1
            /\ wH >= 1 /\ H \in 0..23 /\ CharAt(s, pH + wH, ":")
            /\ wM >= 1 /\ M \in 0..59 /\ CharAt(s, pM + wM, ":")
            /\ wS >= 1 /\ S \in 0..61
            /\ pS + wS = Len(s) + 1
    IN  IF matches /\ Y >= 1 /\ d <= DaysInMonth(Y, m) /\ S <= 59
        THEN DateTime(Y, m, d, H, M, S, 0)
        ELSE ValueError

-----------------------------------------------------------------------------
(* get_capture_date *)

Return(v) == [status |-> "return", value |-> v]
Raise == [status |-> "raise", value |-> None]

\* a variant that returns None for a value that does not parse
PilBlockSwallowsBadTag(pil_available, exif) ==
    IF ~pil_available THEN Raise
    ELSE CASE exif.k = "error"     -> Raise
           [] exif.k = "no_exif"   -> [status |-> "fallthrough", value |-> None]
           [] exif.k = "no_tag"    -> [status |-> "fallthrough", value |-> None]
           [] exif.k = "nonstring" -> Return(None)
           [] exif.k = "tag"       ->
                LET parsed == Strptime(exif.value)
                IN  IF parsed = ValueError THEN Return(None) ELSE Return(parsed)

\* Lines 109-118: the body of the first try block.  `exif` describes what
\* Pillow finds in the file; Image is None when Pillow is not installed.
\* The result is "raise", "fallthrough" (the block ends without a return) or
\* "return".
PilBlock(pil_available, exif) ==
    IF ~pil_available THEN Raise                      \* None.open: AttributeError
    ELSE CASE exif.k = "error"     -> Raise           \* Image.open or _getexif raises
           [] exif.k = "no_exif"   -> [status |-> "fallthrough", value |-> None]
           [] exif.k = "no_tag"    -> [status |-> "fallthrough", value |-> None]
           [] exif.k = "nonstring" -> Raise           \* strptime: TypeError
           [] exif.k = "tag"       ->
                LET parsed == Strptime(exif.value)
                IN  IF parsed = ValueError THEN Raise ELSE Return(parsed)

\* Lines 125-133: the body of the second try block.
HachoirBlock(hach) ==
    CASE hach.k = "error"       -> Raise
      [] hach.k = "no_parser"   -> [status |-> "fallthrough", value |-> None]
      [] hach.k = "no_metadata" -> [status |-> "fallthrough", value |-> None]
      [] hach.k = "no_date"     -> Raise              \* metadata.get: ValueError
      [] hach.k = "date"        -> Return(hach.value)

\* What a call of get_capture_date produced: how it ended, the value returned,
\* and the extractors whose try block it entered, in order.
Outcome(status, value, calls) == [status |-> status, value |-> value, calls |-> calls]

\* a variant that asks hachoir before Pillow
get_capture_date_hachoir_first(pil_available, hachoir_available, exif, hach) ==
    LET second == IF hachoir_available THEN HachoirBlock(hach)
                  ELSE [status |-> "fallthrough", value |-> None]
        first == PilBlock(pil_available, exif)
    IN  IF second.status = "return"
        THEN Outcome("return", second.value, <<"hachoir">>)
        ELSE IF first.status = "return"
             THEN Outcome("return", first.value, <<"hachoir", "pil">>)
             ELSE Outcome("return", None, <<"hachoir", "pil">>)

\* a variant whose second try block has no except clause
get_capture_date_uncaught(pil_available, hachoir_available, exif, hach) ==
    LET first == PilBlock(pil_available, exif)
    IN  IF first.status = "return"
        THEN Outcome("return", first.value, <<"pil">>)
        ELSE IF hachoir_available
             THEN LET second == HachoirBlock(hach)
                  IN  IF second.status = "fallthrough"
                      THEN Outcome("return", None, <<"pil", "hachoir">>)
                      ELSE Outcome(second.status, second.value, <<"pil", "hachoir">>)
             ELSE Outcome("return", None, <<"pil">>)

\* Both try blocks catch Exception and pass; the second is skipped when
\* createParser is None; the last line returns None.
get_capture_date(pil_available, hachoir_available, exif, hach) ==
    LET first == PilBlock(pil_available, exif)
    IN  IF first.status = "return"
        THEN Outcome("return", first.value, <<"pil">>)
        ELSE IF hachoir_available
             THEN LET second == HachoirBlock(hach)
                  IN  IF second.status = "return"
                      THEN Outcome("return", second.value, <<"pil", "hachoir">>)
                      ELSE Outcome("return", None, <<"pil", "hachoir">>)
             ELSE Outcome("return", None, <<"pil">>)

-----------------------------------------------------------------------------
(* The body of main's metadata loop *)

\* bool(x): None is false, every date and datetime is true
Truthy(x) == x # None

\* a or b
Or(a, b) == IF Truthy(a) THEN a ELSE b

\* a variant with the two fallbacks in the other order
SelectDateCreatedFirst(capture_date, modified_date, created_date) ==
    Or(Or(capture_date, created_date), modified_date)

\* final_date = capture_date or modified_date or created_date
SelectDate(capture_date, modified_date, created_date) ==
    Or(Or(capture_date, modified_date), created_date)

FileInfo(filename, modified_date, created_date, capture_date) ==
    [filename      |-> filename,
     original_path |-> filename,
     modified_date |-> modified_date,
     created_date  |-> created_date,
     capture_date  |-> capture_date,
     final_date    |-> SelectDate(capture_date, modified_date, created_date),
     new_filename  |-> None]

-----------------------------------------------------------------------------
(* Directory filtering: is_media_file, is_already_prefixed, get_filtered_files *)

\* mimetypes.guess_type for the extensions that occur in the model
MimeType(name) ==
    LET ext == Splitext(name)[2]
    IN  CASE ext = <<".", "p", "n", "g">> -> <<"image", "png">>
          [] ext = <<".", "j", "p", "g">> -> <<"image", "jpeg">>
          [] ext = <<".", "m", "p", "4">> -> <<"video", "mp4">>
          [] ext = <<".", "t", "x", "t">> -> <<"text", "plain">>
          [] OTHER -> None

is_media_file(name) ==
    LET mime_type == MimeType(name)
    IN  IF mime_type # None
        THEN mime_type[1] = "image" \/ mime_type[1] = "video"
        ELSE FALSE

\* s[from..] starts with the pattern: "DIGIT" stands for \d, anything else for itself
MatchesAt(s, from, pattern) ==
    \A k \in 1..Len(pattern) :
        /\ from + k - 1 <= Len(s)
        /\ IF pattern[k] = "DIGIT" THEN IsDigit(s[from + k - 1])
           ELSE s[from + k - 1] = pattern[k]

\* \d{4}-\d{2}-\d{2} \d{2}:\d{2}:\d{2}
DateTimePattern ==
    <<"DIGIT", "DIGIT", "DIGIT", "DIGIT", "-", "DIGIT", "DIGIT", "-", "DIGIT", "DIGIT",
      " ", "DIGIT", "DIGIT", ":", "DIGIT", "DIGIT", ":", "DIGIT", "DIGIT">>

\* (\.\d{3})
MillisPattern == <<".", "DIGIT", "DIGIT", "DIGIT">>

\* " .+" : a blank and at least one more character that is not a newline
\* (re.match without DOTALL: "." matches any character but "\n")
RestAt(s, from) ==
    /\ MatchesAt(s, from, <<" ">>)
    /\ Len(s) >= from + 1
    /\ s[from + 1] # "\n"

\* re.match(r'^\d{4}-\d{2}-\d{2} \d{2}:\d{2}:\d{2}(\.\d{3})? .+', filename)
is_already_prefixed(filename) ==
    /\ MatchesAt(filename, 1, DateTimePattern)
    /\ \/ /\ MatchesAt(filename, Len(DateTimePattern) + 1, MillisPattern)
          /\ RestAt(filename, Len(DateTimePattern) + Len(MillisPattern) + 1)
       \/ RestAt(filename, Len(DateTimePattern) + 1)

\* os.listdir returns the names in arbitrary order: every ordering of the set
Listings(S) ==
    {l \in [1..Cardinality(S) -> S] : \A a, b \in 1..Cardinality(S) : a # b => l[a] # l[b]}

NotPrefixed(f) == ~is_already_prefixed(f)

-----------------------------------------------------------------------------
(* os.rename *)

\* The result of os.rename(old, new) in directory d.  On POSIX an existing
\* target is silently replaced; on Windows the call raises FileExistsError.
\* os_error stands for a failure of the call itself (permission, name too long).
OsRename(d, plat, old, new, os_error) ==
    IF os_error \/ old \notin DOMAIN d \/ (plat = "nt" /\ new \in DOMAIN d)
    THEN [ok |-> FALSE, disk |-> d]
    ELSE [ok |-> TRUE,
          disk |-> [n \in (DOMAIN d \ {old}) \cup {new} |->
                        IF n = new THEN d[old] ELSE d[n]]]

-----------------------------------------------------------------------------
(* Inputs *)

MaxFiles == 2      \* files in the directory
MaxBatch == 3      \* records of a batch handed to the generation loop

Name_pic      == <<"p", "i", "c", ".", "p", "n", "g">>
Name_pic1     == <<"p", "i", "c", " ", "(", "1", ")", ".", "p", "n", "g">>
Name_dotfile  == <<".", "p", "n", "g">>
Name_clip     == <<"c", "l", "i", "p", ".", "m", "p", "4">>
Name_notes    == <<"n", "o", "t", "e", "s", ".", "t", "x", "t">>
\* "2024-01-01 00:00:00 pic.png", a name an earlier run produced
Name_prefixed ==
    <<"2", "0", "2", "4", "-", "0", "1", "-", "0", "1", " ",
      "0", "0", ":", "0", "0", ":", "0", "0", " ">> \o Name_pic

\* names a directory may hold that look like parts of a generated name, and a
\* name that begins with a newline (POSIX allows any character but "/" and NUL)
Name_dot000   == <<".", "0", "0", "0", " ">> \o Name_pic
Name_000      == <<"0", "0", "0", " ">> \o Name_pic
Name_newline  == <<"\n">> \o Name_pic

DirNames == {Name_pic, Name_clip, Name_notes, Name_prefixed}

T_midnight   == DateTime(2024, 1, 1, 0, 0, 0, 0)
T_submilli   == DateTime(2024, 1, 1, 0, 0, 0, 500)
T_007        == DateTime(2024, 3, 15, 14, 30, 0, 7000)
T_007_999    == DateTime(2024, 3, 15, 14, 30, 0, 7999)
T_exif       == DateTime(2024, 3, 15, 14, 30, 0, 0)
T_exif_short == DateTime(2024, 3, 5, 1, 2, 3, 0)
T_created    == DateTime(2023, 12, 31, 23, 59, 59, 999999)
D_newyear    == Date(2024, 1, 1)

\* os.stat: st_mtime and st_ctime through datetime.fromtimestamp
Mtimes == {T_midnight, T_007}
Ctimes == {T_created}

\* DateTimeOriginal values
Tag_valid   == <<"2", "0", "2", "4", ":", "0", "3", ":", "1", "5", " ",
                 "1", "4", ":", "3", "0", ":", "0", "0">>
Tag_short   == <<"2", "0", "2", "4", ":", "3", ":", "5", " ",
                 "1", ":", "2", ":", "3">>
Tag_zero    == <<"0", "0", "0", "0", ":", "0", "0", ":", "0", "0", " ",
                 "0", "0", ":", "0", "0", ":", "0", "0">>
Tag_dashes  == <<"2", "0", "2", "4", "-", "0", "3", "-", "1", "5", " ",
                 "1", "4", ":", "3", "0", ":", "0", "0">>
Tag_feb30   == <<"2", "0", "2", "3", ":", "0", "2", ":", "3", "0", " ",
                 "1", "0", ":", "0", "0", ":", "0", "0">>
Tag_trailing == Tag_valid \o <<"Z">>

TagValues == {Tag_valid, Tag_short, Tag_zero, Tag_dashes, Tag_feb30, Tag_trailing}

\* what Pillow finds in a file
ExifOutcomes ==
    {[k |-> x] : x \in {"error", "no_exif", "no_tag", "nonstring"}}
    \cup {[k |-> "tag", value |-> v] : v \in TagValues}

\* what hachoir finds in a file
HachoirDates == {T_midnight, T_007_999, D_newyear}

HachoirOutcomes ==
    {[k |-> x] : x \in {"error", "no_parser", "no_metadata", "no_date"}}
    \cup {[k |-> "date", value |-> v] : v \in HachoirDates}

\* batches for the generation loop: any names, repeated or not, any dates
GenNames == {Name_pic, Name_pic1, Name_dotfile}

GenRecords ==
    {FileInfo(n, t, T_created, None) :
        n \in GenNames, t \in {T_midnight, T_submilli, T_007, T_007_999}}
    \cup {FileInfo(n, T_007, T_created, D_newyear) : n \in GenNames}

GenBatches == UNION {[1..n -> GenRecords] : n \in 1..MaxBatch}

-----------------------------------------------------------------------------
(* main() *)

Directories == {S \in SUBSET DirNames : Cardinality(S) <= MaxFiles}

Init ==
    /\ pc = "start"
    /\ platform \in {"posix", "nt"}
    /\ \E S \in Directories : disk = [n \in S |-> n]
    /\ file_list = <<>>
    /\ files_data = <<>>
    /\ existing_names = {}
    /\ idx = 0
    /\ prefixed_count = 0
    /\ errors = <<>>
    /\ probe = None
    /\ answers = <<>>

\* Lines 183-197: prompt_yes_no returns True on y/yes and False on n/no
YesNo(answer) == IF answer THEN "yes" ELSE "no"

\* Lines 447-457: check_dependencies() is true only when nothing is missing,
\* and the path must be a directory.
CheckStart ==
    /\ pc = "start"
    /\ \E deps_ok \in BOOLEAN, is_dir \in BOOLEAN :
          pc' = IF deps_ok /\ is_dir THEN "list" ELSE "exit"
    /\ UNCHANGED <<platform, disk, file_list, files_data, existing_names, idx,
                   prefixed_count, errors, probe, answers>>

\* Lines 465-491: list the media files, ask what to do with the already
\* prefixed ones, leave when nothing is selected.
SelectFiles ==
    /\ pc = "list"
    /\ \E listing \in Listings(DOMAIN disk) :
       \E response \in {"ignore", "prefix_anyway", "quit"} :
          LET all_files == SelectSeq(listing, is_media_file)
              already_prefixed == SelectSeq(all_files, is_already_prefixed)
              prefix_choice == IF already_prefixed = <<>> THEN "ignore" ELSE response
              selected == IF prefix_choice = "ignore"
                          THEN SelectSeq(all_files, NotPrefixed)
                          ELSE all_files
          IN  /\ IF prefix_choice = "quit" \/ Len(selected) = 0
                 THEN pc' = "exit" /\ UNCHANGED file_list
                 ELSE pc' = "confirm_continue" /\ file_list' = selected
              /\ answers' = IF already_prefixed = <<>>
                            THEN answers
                            ELSE Append(answers,
                                     <<"confirm_already_prefixed_files", response>>)
    /\ UNCHANGED <<platform, disk, files_data, existing_names, idx,
                   prefixed_count, errors, probe>>

\* Lines 493-496
ConfirmContinue ==
    /\ pc = "confirm_continue"
    /\ \E answer \in BOOLEAN :
          /\ pc' = IF answer THEN "collect" ELSE "exit"
          /\ answers' = Append(answers, <<"confirm_continue", YesNo(answer)>>)
    /\ idx' = 1
    /\ UNCHANGED <<platform, disk, file_list, files_data, existing_names,
                   prefixed_count, errors, probe>>

\* a variant of the loop that leaves out a file that has no capture date
CollectSkipsUndated ==
    /\ pc = "collect"
    /\ idx <= Len(file_list)
    /\ \E stat_ok \in BOOLEAN, modified_date \in Mtimes, created_date \in Ctimes,
          exif \in ExifOutcomes, hach \in HachoirOutcomes :
          LET filename == file_list[idx]
              capture == get_capture_date(TRUE, TRUE, exif, hach)
          IN  IF ~stat_ok \/ capture.status = "raise"
              THEN pc' = "exit" /\ UNCHANGED <<files_data, idx>>
              ELSE /\ files_data' =
                         IF capture.value = None
                         THEN files_data
                         ELSE Append(files_data,
                                  FileInfo(filename, modified_date, created_date,
                                           capture.value))
                   /\ idx' = idx + 1
                   /\ pc' = IF idx = Len(file_list) THEN "confirm_missing" ELSE "collect"
    /\ UNCHANGED <<platform, disk, file_list, existing_names,
                   prefixed_count, errors, probe, answers>>

\* Lines 502-531: one iteration of the metadata loop.  os.stat may raise (the
\* file vanished); that and anything get_capture_date raised end the program.
\* After check_dependencies both libraries are present.
CollectMetadata ==
    /\ pc = "collect"
    /\ idx <= Len(file_list)
    /\ \E stat_ok \in BOOLEAN, modified_date \in Mtimes, created_date \in Ctimes,
          exif \in ExifOutcomes, hach \in HachoirOutcomes :
          LET filename == file_list[idx]
              capture == get_capture_date(TRUE, TRUE, exif, hach)
          IN  IF ~stat_ok \/ capture.status = "raise"
              THEN pc' = "exit" /\ UNCHANGED <<files_data, idx>>
              ELSE /\ files_data' = Append(files_data,
                         FileInfo(filename, modified_date, created_date, capture.value))
                   /\ idx' = idx + 1
                   /\ pc' = IF idx = Len(file_list) THEN "confirm_missing" ELSE "collect"
    /\ UNCHANGED <<platform, disk, file_list, existing_names,
                   prefixed_count, errors, probe, answers>>

\* a variant that asks about the missing capture dates and goes on whatever
\* the answer
ConfirmMissingIgnoresAnswer ==
    /\ pc = "confirm_missing"
    /\ \E answer \in BOOLEAN :
          LET missing_capture == {k \in 1..Len(files_data) :
                                     files_data[k].capture_date = None}
          IN  /\ pc' = "generate"
              /\ answers' = IF missing_capture = {}
                            THEN answers
                            ELSE Append(answers,
                                     <<"confirm_missing_capture_dates", YesNo(answer)>>)
    /\ existing_names' = {}
    /\ idx' = 1
    /\ UNCHANGED <<platform, disk, file_list, files_data,
                   prefixed_count, errors, probe>>

\* Lines 535-541: confirm_missing_capture_dates asks only when some record has
\* no capture date.
ConfirmMissing ==
    /\ pc = "confirm_missing"
    /\ \E answer \in BOOLEAN :
          LET missing_capture == {k \in 1..Len(files_data) :
                                     files_data[k].capture_date = None}
              proceed == IF missing_capture = {} THEN TRUE ELSE answer
          IN  /\ pc' = IF proceed THEN "generate" ELSE "exit"
              /\ answers' = IF missing_capture = {}
                            THEN answers
                            ELSE Append(answers,
                                     <<"confirm_missing_capture_dates", YesNo(answer)>>)
    /\ existing_names' = {}
    /\ idx' = 1
    /\ UNCHANGED <<platform, disk, file_list, files_data,
                   prefixed_count, errors, probe>>

\* a variant that does not add the name it returns to the reserved names
GenerateWithoutReservation ==
    /\ pc = "generate"
    /\ idx <= Len(files_data)
    /\ LET new_filename == generate_prefixed_filename(files_data[idx], existing_names)
       IN  files_data' = [files_data EXCEPT ![idx].new_filename = new_filename]
    /\ idx' = idx + 1
    /\ pc' = IF idx = Len(files_data) THEN "confirm_prefixes" ELSE "generate"
    /\ UNCHANGED <<platform, disk, file_list, existing_names, prefixed_count,
                   errors, probe, answers>>

\* a variant that reserves the original filename along with the name it returns
GenerateReservesOriginalName ==
    /\ pc = "generate"
    /\ idx <= Len(files_data)
    /\ LET new_filename == generate_prefixed_filename(files_data[idx], existing_names)
       IN  /\ files_data' = [files_data EXCEPT ![idx].new_filename = new_filename]
           /\ existing_names' = existing_names \cup {new_filename, files_data[idx].filename}
    /\ idx' = idx + 1
    /\ pc' = IF idx = Len(files_data) THEN "confirm_prefixes" ELSE "generate"
    /\ UNCHANGED <<platform, disk, file_list, prefixed_count, errors, probe, answers>>

\* Lines 542-545: one iteration of the generation loop.
Generate ==
    /\ pc = "generate"
    /\ idx <= Len(files_data)
    /\ LET new_filename == generate_prefixed_filename(files_data[idx], existing_names)
       IN  /\ files_data' = [files_data EXCEPT ![idx].new_filename = new_filename]
           /\ existing_names' = existing_names \cup {new_filename}
    /\ idx' = idx + 1
    /\ pc' = IF idx = Len(files_data) THEN "confirm_prefixes" ELSE "generate"
    /\ UNCHANGED <<platform, disk, file_list, prefixed_count, errors, probe, answers>>

\* Lines 547-553 and 405-406
ConfirmPrefixes ==
    /\ pc = "confirm_prefixes"
    /\ \E answer \in BOOLEAN :
          /\ pc' = IF answer THEN "rename" ELSE "exit"
          /\ answers' = Append(answers, <<"confirm_prefixes", YesNo(answer)>>)
    /\ idx' = 1
    /\ prefixed_count' = 0
    /\ errors' = <<>>
    /\ UNCHANGED <<platform, disk, file_list, files_data, existing_names, probe>>

\* a variant of the loop that lets the first failed rename end it
RenameStopsAtError ==
    /\ pc = "rename"
    /\ idx <= Len(files_data)
    /\ \E os_error \in BOOLEAN :
          LET file_info == files_data[idx]
              result == OsRename(disk, platform, file_info.original_path,
                                 file_info.new_filename, os_error)
          IN  /\ disk' = result.disk
              /\ IF result.ok
                 THEN /\ prefixed_count' = prefixed_count + 1
                      /\ UNCHANGED errors
                      /\ pc' = IF idx = Len(files_data) THEN "done" ELSE "rename"
                 ELSE /\ errors' = Append(errors, file_info.filename)
                      /\ UNCHANGED prefixed_count
                      /\ pc' = "done"
    /\ idx' = idx + 1
    /\ UNCHANGED <<platform, file_list, files_data, existing_names, probe, answers>>

\* Lines 408-416: one iteration of the loop of prefix_files.
Rename ==
    /\ pc = "rename"
    /\ idx <= Len(files_data)
    /\ \E os_error \in BOOLEAN :
          LET file_info == files_data[idx]
              result == OsRename(disk, platform, file_info.original_path,
                                 file_info.new_filename, os_error)
          IN  /\ disk' = result.disk
              /\ IF result.ok
                 THEN prefixed_count' = prefixed_count + 1 /\ UNCHANGED errors
                 ELSE errors' = Append(errors, file_info.filename)
                      /\ UNCHANGED prefixed_count
    /\ idx' = idx + 1
    /\ pc' = IF idx = Len(files_data) THEN "done" ELSE "rename"
    /\ UNCHANGED <<platform, file_list, files_data, existing_names, probe, answers>>

Next ==
    \/ CheckStart
    \/ SelectFiles
    \/ ConfirmContinue
    \/ CollectMetadata
    \/ ConfirmMissing
    \/ Generate
    \/ ConfirmPrefixes
    \/ Rename

Spec == Init /\ [][Next]_vars

-----------------------------------------------------------------------------
(* The generation loop of main() on an arbitrary batch *)

InitGen ==
    /\ pc = "generate"
    /\ platform = "posix"
    /\ disk = << >>
    /\ file_list = <<>>
    /\ files_data \in GenBatches
    /\ existing_names = {}
    /\ idx = 1
    /\ prefixed_count = 0
    /\ errors = <<>>
    /\ probe = None
    /\ answers = <<>>

NextGen == Generate

SpecGen == InitGen /\ [][NextGen]_vars

-----------------------------------------------------------------------------
(* The generation loop on the batches one directory listing can give: the
   filenames of a batch are pairwise distinct *)

ListingNames == {Name_pic, Name_pic1, Name_dot000, Name_000, Name_newline}

ListingDates == {T_midnight, T_submilli}

ListingBatches ==
    UNION {{[k \in 1..n |-> FileInfo(l[k], d[k], T_created, None)] :
               l \in {x \in [1..n -> ListingNames] :
                         \A a, b \in 1..n : a # b => x[a] # x[b]},
               d \in [1..n -> ListingDates]} : n \in 1..MaxBatch}

InitListing ==
    /\ pc = "generate"
    /\ platform = "posix"
    /\ disk = << >>
    /\ file_list = <<>>
    /\ files_data \in ListingBatches
    /\ existing_names = {}
    /\ idx = 1
    /\ prefixed_count = 0
    /\ errors = <<>>
    /\ probe = None
    /\ answers = <<>>

NextListing == Generate

SpecListing == InitListing /\ [][NextListing]_vars

-----------------------------------------------------------------------------
(* The body of the metadata loop on one file, with either library absent or present *)

InitResolve ==
    /\ pc = "collect"
    /\ platform = "posix"
    /\ disk = << >>
    /\ file_list = <<>>
    /\ files_data = <<>>
    /\ existing_names = {}
    /\ idx = 1
    /\ prefixed_count = 0
    /\ errors = <<>>
    /\ probe = None
    /\ answers = <<>>

\* Lines 505-525 for a file with the given contents and stat times.
ResolveOne ==
    /\ pc = "collect"
    /\ \E pil_available \in BOOLEAN, hachoir_available \in BOOLEAN,
          modified_date \in Mtimes, created_date \in Ctimes,
          exif \in ExifOutcomes, hach \in HachoirOutcomes :
          LET capture == get_capture_date(pil_available, hachoir_available, exif, hach)
          IN  probe' = [kind |-> "probe",
                        pil_available |-> pil_available,
                        hachoir_available |-> hachoir_available,
                        exif |-> exif, hach |-> hach,
                        modified_date |-> modified_date,
                        created_date |-> created_date,
                        outcome |-> capture,
                        file_info |-> IF capture.status = "return"
                                      THEN FileInfo(Name_pic, modified_date,
                                                    created_date, capture.value)
                                      ELSE None]
    /\ pc' = "resolved"
    /\ UNCHANGED <<platform, disk, file_list, files_data, existing_names, idx,
                   prefixed_count, errors, answers>>

NextResolve == ResolveOne

SpecResolve == InitResolve /\ [][NextResolve]_vars

-----------------------------------------------------------------------------
(* Properties of the generation loop *)

\* record k has been given its new name
Assigned(k) == files_data[k].new_filename # None

\* the names reserved when record k was handled
Earlier(k) == {files_data[j].new_filename : j \in 1..(k - 1)}

\* second-resolution fields of a timestamp; a date counts as midnight
SecondOf(t) ==
    IF t.kind = "datetime"
    THEN <<t.year, t.month, t.day, t.hour, t.minute, t.second>>
    ELSE <<t.year, t.month, t.day, 0, 0, 0>>

MicrosecondOf(t) == IF t.kind = "datetime" THEN t.microsecond ELSE 0

\* the prefixes the dates of the batches are expected to give
P_midnight == <<"2", "0", "2", "4", "-", "0", "1", "-", "0", "1", " ",
                "0", "0", ":", "0", "0", ":", "0", "0">>
P_halfpast == <<"2", "0", "2", "4", "-", "0", "3", "-", "1", "5", " ",
                "1", "4", ":", "3", "0", ":", "0", "0">>

ExpectedPrefix(t) ==
    CASE t = T_midnight -> P_midnight
      [] t = D_newyear  -> P_midnight
      [] t = T_submilli -> P_midnight \o <<".", "0", "0", "0">>
      [] t = T_007      -> P_halfpast \o <<".", "0", "0", "7">>
      [] t = T_007_999  -> P_halfpast \o <<".", "0", "0", "7">>

\* base and extension of the names of the batches
ExpectedSplit(name) ==
    CASE name = Name_pic     -> << <<"p", "i", "c">>, <<".", "p", "n", "g">> >>
      [] name = Name_pic1    -> << <<"p", "i", "c", " ", "(", "1", ")">>,
                                   <<".", "p", "n", "g">> >>
      [] name = Name_dotfile -> << <<".", "p", "n", "g">>, <<>> >>

ExpectedPlain(r) == ExpectedPrefix(r.final_date) \o <<" ">> \o r.filename

ExpectedNumbered(r, n) ==
    ExpectedPrefix(r.final_date) \o <<" ">> \o ExpectedSplit(r.filename)[1]
    \o <<" ", "(", DigitChars[n + 1], ")">> \o ExpectedSplit(r.filename)[2]

\* C1: the new names assigned so far in a batch are pairwise distinct, whatever
\* the dates and original names of its records.
C1_NamesPairwiseDistinct ==
    \A a, b \in 1..Len(files_data) :
        (a # b /\ Assigned(a) /\ Assigned(b))
            => files_data[a].new_filename # files_data[b].new_filename

\* three records with the same name and the same date have all been named
C1_Witness ==
    /\ Len(files_data) = 3
    /\ \A k \in 1..3 : /\ Assigned(k)
                       /\ files_data[k].filename = files_data[1].filename
                       /\ files_data[k].final_date = files_data[1].final_date

\* C6: a date with no or zero microseconds gives the 19 characters
\* YYYY-MM-DD HH:MM:SS directly followed by the blank; a date with non-zero
\* microseconds gives them followed by "." and three digits whose value is
\* microseconds divided by 1000, rounded down, then the blank.
C6_MillisecondSuffix ==
    \A k \in 1..Len(files_data) :
        Assigned(k) =>
            LET t == files_data[k].final_date
                n == files_data[k].new_filename
            IN  /\ MatchesAt(n, 1, DateTimePattern)
                /\ <<NumValue(n, 1, 4), NumValue(n, 6, 2), NumValue(n, 9, 2),
                     NumValue(n, 12, 2), NumValue(n, 15, 2), NumValue(n, 18, 2)>>
                      = SecondOf(t)
                /\ IF MicrosecondOf(t) = 0
                   THEN n[20] = " "
                   ELSE /\ MatchesAt(n, 20, MillisPattern)
                        /\ NumValue(n, 21, 3) = MicrosecondOf(t) \div 1000
                        /\ n[24] = " "

\* named records with 7999 microseconds (truncated to 007), with 500
\* microseconds (000) and with no microsecond attribute
C6_Witness ==
    /\ Len(files_data) = 3
    /\ \A k \in 1..3 : Assigned(k)
    /\ files_data[1].final_date = T_007_999
    /\ files_data[2].final_date = T_submilli
    /\ files_data[3].final_date = D_newyear

\* C7: when prefix, blank, original name is not reserved yet, that string is
\* the new name.
C7_PlainNameWhenFree ==
    \A k \in 1..Len(files_data) :
        (Assigned(k) /\ ExpectedPlain(files_data[k]) \notin Earlier(k))
            => files_data[k].new_filename = ExpectedPlain(files_data[k])

\* a second record got its plain name while another name was reserved
C7_Witness ==
    /\ Len(files_data) >= 2
    /\ Assigned(2)
    /\ files_data[1].new_filename = P_midnight \o <<" ">> \o Name_pic
    /\ files_data[2].new_filename =
          P_halfpast \o <<".", "0", "0", "7", " ">> \o Name_pic1

\* the counter name is the one with the lowest counter >= 1 that is not reserved
LowestCounter(k) ==
    LET r == files_data[k]
    IN  \E n \in 1..Len(files_data) :
            /\ r.new_filename = ExpectedNumbered(r, n)
            /\ ExpectedNumbered(r, n) \notin Earlier(k)
            /\ \A m \in 1..(n - 1) : ExpectedNumbered(r, m) \in Earlier(k)

C8_CounterWhenReserved ==
    \A k \in 1..Len(files_data) :
        (Assigned(k) /\ ExpectedPlain(files_data[k]) \in Earlier(k)) => LowestCounter(k)

\* the first two records of a batch got the plain name and the (1) name
PlainThenOne ==
    /\ files_data[1].new_filename = ExpectedPlain(files_data[1])
    /\ files_data[2].new_filename = ExpectedNumbered(files_data[2], 1)

\* two timestamps of the same type that agree down to the millisecond
SameToMillisecond(a, b) ==
    /\ a.kind = b.kind
    /\ SecondOf(a) = SecondOf(b)
    /\ MicrosecondOf(a) \div 1000 = MicrosecondOf(b) \div 1000

\* same second, and either no microseconds in both or non-zero microseconds
\* with the same millisecond in both
SameSuffixClass(a, b) ==
    /\ SecondOf(a) = SecondOf(b)
    /\ \/ MicrosecondOf(a) = 0 /\ MicrosecondOf(b) = 0
       \/ /\ MicrosecondOf(a) > 0 /\ MicrosecondOf(b) > 0
          /\ MicrosecondOf(a) \div 1000 = MicrosecondOf(b) \div 1000

\* the first two records have been named and bear the same original name
TwoSameNames ==
    /\ Len(files_data) >= 2
    /\ Assigned(2)
    /\ files_data[1].filename = files_data[2].filename

\* C8 as stated: a reserved plain name gives the lowest unused counter, and
\* two records with the same name and dates equal to the millisecond get the
\* plain name and the (1) name.
C8_AsStated ==
    /\ C8_CounterWhenReserved
    /\ (TwoSameNames /\ SameToMillisecond(files_data[1].final_date,
                                          files_data[2].final_date))
          => PlainThenOne

\* C8 (amended): a reserved plain name gives the lowest unused counter, and two
\* records with the same name whose dates give the same prefix (same second,
\* both without microseconds or both with non-zero microseconds of the same
\* millisecond) get the plain name and the (1) name.
C8_LowestUnusedCounter ==
    /\ C8_CounterWhenReserved
    /\ (TwoSameNames /\ SameSuffixClass(files_data[1].final_date,
                                        files_data[2].final_date))
          => PlainThenOne

\* the third record skipped the reserved (1) name and took (2); its date
\* differs from the first record's in the microseconds only
C8_Witness ==
    /\ Len(files_data) = 3
    /\ Assigned(3)
    /\ files_data[1].final_date = T_007
    /\ files_data[3].final_date = T_007_999
    /\ files_data[3].filename = Name_pic
    /\ files_data[1].new_filename = ExpectedPlain(files_data[3])
    /\ files_data[2].new_filename = ExpectedNumbered(files_data[3], 1)
    /\ files_data[3].new_filename = ExpectedNumbered(files_data[3], 2)

-----------------------------------------------------------------------------
(* Properties of date resolution and selection *)

\* C2: the date of every record is its capture date if it has one, otherwise
\* its modified date, otherwise its created date; it is never missing.
C2_FallbackOrder ==
    \A k \in 1..Len(files_data) :
        LET r == files_data[k]
        IN  /\ r.final_date # None
            /\ r.final_date =
                  IF r.capture_date # None THEN r.capture_date
                  ELSE IF r.modified_date # None THEN r.modified_date
                  ELSE r.created_date

\* a batch with a record that uses its capture date and a record that fell
\* back to its modified date, which differs from its created date
C2_Witness ==
    /\ Len(files_data) = 2
    /\ files_data[1].capture_date = T_exif
    /\ files_data[1].final_date = T_exif
    /\ files_data[2].capture_date = None
    /\ files_data[2].final_date = T_007
    /\ files_data[2].created_date = T_created

\* the DateTimeOriginal values that parse, with the timestamps they denote
ParsableTags == {Tag_valid, Tag_short}

ExpectedParse(v) ==
    CASE v = Tag_valid -> [kind |-> "datetime", year |-> 2024, month |-> 3, day |-> 15,
                           hour |-> 14, minute |-> 30, second |-> 0, microsecond |-> 0]
      [] v = Tag_short -> [kind |-> "datetime", year |-> 2024, month |-> 3, day |-> 5,
                           hour |-> 1, minute |-> 2, second |-> 3, microsecond |-> 0]

Probed == probe # None

\* Pillow is present and reads a DateTimeOriginal value that parses
TagParses ==
    /\ probe.pil_available
    /\ probe.exif.k = "tag"
    /\ probe.exif.value \in ParsableTags

\* the image step gives nothing: Pillow absent, not an image, no EXIF, no tag,
\* or a value that does not parse
ImageStepFails ==
    \/ ~probe.pil_available
    \/ probe.exif.k \in {"error", "no_exif", "no_tag", "nonstring"}
    \/ probe.exif.k = "tag" /\ probe.exif.value \notin ParsableTags

\* hachoir is present and reads a creation date
ContainerHasDate == probe.hachoir_available /\ probe.hach.k = "date"

\* C3: a DateTimeOriginal value that parses is returned as that timestamp,
\* whatever hachoir would find and whatever the stat times are, and hachoir is
\* not called.
C3_ExifDateWins ==
    (Probed /\ TagParses) =>
        /\ probe.outcome.status = "return"
        /\ probe.outcome.value = ExpectedParse(probe.exif.value)
        /\ probe.outcome.calls = <<"pil">>

\* the tag parsed while hachoir had another date to offer
C3_Witness ==
    /\ Probed
    /\ probe.exif = [k |-> "tag", value |-> Tag_valid]
    /\ probe.pil_available
    /\ probe.hachoir_available
    /\ probe.hach = [k |-> "date", value |-> T_007_999]
    /\ probe.outcome.value = T_exif

\* C4: when the image step gives nothing and hachoir reads a creation date,
\* that date is returned and becomes the record's final_date.
C4_ContainerDateUsed ==
    (Probed /\ ImageStepFails /\ ContainerHasDate) =>
        /\ probe.outcome.status = "return"
        /\ probe.outcome.value = probe.hach.value
        /\ probe.file_info.capture_date = probe.hach.value
        /\ probe.file_info.final_date = probe.hach.value

\* a malformed tag value was followed by hachoir's date
C4_Witness ==
    /\ Probed
    /\ probe.pil_available
    /\ probe.exif = [k |-> "tag", value |-> Tag_zero]
    /\ probe.hach = [k |-> "date", value |-> D_newyear]
    /\ probe.file_info.final_date = D_newyear

\* C5: get_capture_date always returns, a timestamp or None, and returns None
\* when neither extractor gives a date.
C5_NeverRaises ==
    Probed =>
        /\ probe.outcome.status = "return"
        /\ \/ probe.outcome.value = None
           \/ probe.outcome.value.kind \in {"datetime", "date"}
        /\ (ImageStepFails /\ ~ContainerHasDate) => probe.outcome.value = None

\* both extractors raised and None came back
C5_Witness ==
    /\ Probed
    /\ probe.pil_available /\ probe.hachoir_available
    /\ probe.exif.k = "error"
    /\ probe.hach.k = "error"
    /\ probe.outcome = [status |-> "return", value |-> None, calls |-> <<"pil", "hachoir">>]

-----------------------------------------------------------------------------
(* Properties of the rename phase *)

\* the names of the records of the batch
BatchNames == {files_data[k].original_path : k \in 1..Len(files_data)}

\* C9: a rename whose target is a file on disk that is not part of the batch
\* fails as an error of the record and leaves the directory as it was, so
\* every file outside the batch stays on disk with its content.
C9_ExistingTargetKept ==
    [][pc = "rename" =>
          LET file_info == files_data[idx]
          IN  /\ file_info.new_filename \in DOMAIN disk \ BatchNames
                    => /\ disk' = disk
                       /\ errors' = Append(errors, file_info.filename)
              /\ \A n \in DOMAIN disk \ BatchNames :
                    n \in DOMAIN disk' /\ disk'[n] = disk[n]]_vars

\* filenames[from..] holds the entries of errs in their order
RECURSIVE InOrder(_, _, _)
InOrder(errs, filenames, from) ==
    IF errs = <<>> THEN TRUE
    ELSE \E k \in from..Len(filenames) :
            /\ filenames[k] = Head(errs)
            /\ InOrder(Tail(errs), filenames, k + 1)

\* C10: the rename loop attempts the records one by one in order, a failure
\* is entered in errors and the loop goes on; when it has ended, successes
\* plus errors make up the batch.
C10_RenameRunsToCompletion ==
    pc \in {"rename", "done"} =>
        /\ idx \in 1..(Len(files_data) + 1)
        /\ prefixed_count + Len(errors) = idx - 1
        /\ InOrder(errors, [k \in 1..(idx - 1) |-> files_data[k].filename], 1)
        /\ pc = "rename" => idx <= Len(files_data)
        /\ pc = "done" => prefixed_count + Len(errors) = Len(files_data)

\* the loop ended after the first rename failed and the second succeeded
C10_Witness ==
    /\ pc = "done"
    /\ Len(files_data) = 2
    /\ errors = <<files_data[1].filename>>
    /\ prefixed_count = 1

-----------------------------------------------------------------------------
(* Frame and termination of the generator *)

\* C11: a step of the generation loop changes the reserved-name set by
\* exactly the name it returned, which was not in it, and changes nothing of
\* the batch but the new_filename of the record it handled.
C11_GeneratorFrame ==
    [][pc = "generate" =>
          LET returned == files_data'[idx].new_filename
          IN  /\ returned \notin existing_names
              /\ existing_names' = existing_names \cup {returned}
              /\ Cardinality(existing_names') = Cardinality(existing_names) + 1
              /\ Len(files_data') = Len(files_data)
              /\ files_data' = [files_data EXCEPT ![idx].new_filename = returned]
              /\ \A f \in {"filename", "original_path", "modified_date",
                           "created_date", "capture_date", "final_date"} :
                    files_data'[idx][f] = files_data[idx][f]]_vars

\* two records of the same name and date are named and both names reserved
C11_Witness ==
    /\ Len(files_data) = 2
    /\ Assigned(2)
    /\ files_data[1].filename = Name_pic1
    /\ files_data[2].filename = Name_pic1
    /\ files_data[1].final_date = files_data[2].final_date
    /\ existing_names = {files_data[1].new_filename, files_data[2].new_filename}
    /\ Cardinality(existing_names) = 2

\* C12: every record the loop has handled has a name (there is no error
\* outcome), and a counter name bears a counter of at most the number of
\* names reserved at the call plus one.
C12_CounterSearchEnds ==
    \A k \in 1..Len(files_data) :
        k < idx =>
            LET r == files_data[k]
            IN  /\ r.new_filename # None
                /\ r.new_filename # ExpectedPlain(r) =>
                      \E n \in 1..(Cardinality(Earlier(k)) + 1) :
                          r.new_filename = ExpectedNumbered(r, n)

\* the third of three records alike had to search past a reserved counter
C12_Witness ==
    /\ Len(files_data) = 3
    /\ idx = 4
    /\ \A k \in 1..3 : files_data[k].filename = Name_dotfile
                       /\ files_data[k].final_date = T_submilli
    /\ files_data[3].new_filename = ExpectedNumbered(files_data[3], 2)

-----------------------------------------------------------------------------
(* The batch as a whole *)

\* the places of main after the metadata loop
AfterCollect == {"confirm_missing", "generate", "confirm_prefixes", "rename", "done"}

\* the places of main after the generation loop
AfterGenerate == {"confirm_prefixes", "rename", "done"}

\* C13: every selected file has exactly one record, in the order of the
\* selection, with a final_date before generation runs, whether or not it has
\* a capture date; after generation each has a new_filename and at the end
\* each was handed to the rename (counted as prefixed or as an error).
C13_EveryFileProcessed ==
    /\ pc = "collect" => Len(files_data) = idx - 1
    /\ pc \in AfterCollect => Len(files_data) = Len(file_list)
    /\ pc \in AfterCollect \cup {"collect"} =>
          \A k \in 1..Len(files_data) :
              /\ files_data[k].filename = file_list[k]
              /\ files_data[k].final_date # None
    /\ pc \in AfterGenerate => \A k \in 1..Len(files_data) : Assigned(k)
    /\ pc = "done" => prefixed_count + Len(errors) = Len(file_list)

\* two files, the first without capture date, were both renamed
C13_Witness ==
    /\ pc = "done"
    /\ Len(file_list) = 2
    /\ prefixed_count = 2
    /\ files_data[1].capture_date = None
    /\ files_data[2].capture_date # None

\* C14 as stated: once the next file's record exists (its metadata was
\* resolved), the file before it has its name and the name is reserved.
C14_AsStated ==
    \A k \in 1..(Len(files_data) - 1) :
        /\ Assigned(k)
        /\ files_data[k].new_filename \in existing_names

\* C14, amended: two passes.  Metadata resolution and date selection are
\* done for every file, in order, before any name is generated; then names
\* are generated in the same order, each reserved before the next is made.
C14_TwoPasses ==
    /\ pc = "collect" =>
          /\ Len(files_data) = idx - 1
          /\ \A k \in 1..Len(files_data) : ~Assigned(k)
    /\ (\E k \in 1..Len(files_data) : Assigned(k)) =>
          Len(files_data) = Len(file_list)
    /\ pc = "generate" =>
          /\ Len(files_data) = Len(file_list)
          /\ \A k \in 1..Len(files_data) : Assigned(k) <=> k < idx
    /\ \A k \in 1..Len(files_data) :
          Assigned(k) =>
              /\ files_data[k].final_date # None
              /\ files_data[k].new_filename \in existing_names

\* between the first and the second file's generation
C14_Witness ==
    /\ pc = "generate"
    /\ idx = 2
    /\ Len(files_data) = 2
    /\ Assigned(1)
    /\ ~Assigned(2)
    /\ existing_names = {files_data[1].new_filename}

-----------------------------------------------------------------------------
(* The confirmation gates *)

\* the prompts shown so far / the answers that end the program
Asked == {answers[i][1] : i \in 1..Len(answers)}
Declined == {i \in 1..Len(answers) : answers[i][2] \in {"no", "quit"}}

\* no file of the directory was renamed or replaced
DiskUnchanged == \A n \in DOMAIN disk : disk[n] = n

\* C15: the rename loop is entered only after every prompt that was shown
\* was answered with yes (or ignore / prefix_anyway); confirm_continue and
\* confirm_prefixes are always shown, confirm_missing_capture_dates exactly
\* when some record has no capture date; a declining answer ends the program,
\* and outside the rename loop the directory is as it was.
C15_GatesBeforeRename ==
    /\ pc \in {"rename", "done"} =>
          /\ Declined = {}
          /\ {"confirm_continue", "confirm_prefixes"} \subseteq Asked
          /\ "confirm_missing_capture_dates" \in Asked <=>
                \E k \in 1..Len(files_data) : files_data[k].capture_date = None
          /\ (\E k \in 1..Len(file_list) : is_already_prefixed(file_list[k])) =>
                <<"confirm_already_prefixed_files", "prefix_anyway">> = answers[1]
    /\ Declined # {} => pc = "exit"
    /\ "confirm_missing_capture_dates" \in Asked =>
          \E k \in 1..Len(files_data) : files_data[k].capture_date = None
    /\ pc \notin {"rename", "done"} => DiskUnchanged

\* all four prompts were shown and agreed to, and a file was renamed
C15_Witness ==
    /\ pc = "done"
    /\ answers = << <<"confirm_already_prefixed_files", "ignore">>,
                    <<"confirm_continue", "yes">>,
                    <<"confirm_missing_capture_dates", "yes">>,
                    <<"confirm_prefixes", "yes">> >>
    /\ prefixed_count = 1
    /\ ~DiskUnchanged

-----------------------------------------------------------------------------
(* The files of the batch across the rename phase *)

\* the files on disk whose content is that of a record of the batch
BatchFilesOnDisk == {n \in DOMAIN disk : disk[n] \in BatchNames}

\* C16: when every rename of the batch succeeded, the directory holds as
\* many files of the batch as before: no rename moved a file onto a file of
\* the batch.
C16_BatchFilesKept ==
    (pc = "done" /\ errors = <<>>) =>
        Cardinality(BatchFilesOnDisk) = Len(files_data)

-----------------------------------------------------------------------------
(* Generated names and the already-prefixed test; batches of one listing *)

\* C17: every name the generator returned is one is_already_prefixed
\* recognises, so a later run that ignores the already prefixed files selects
\* none of the renamed files.
C17_GeneratedNamesRecognised ==
    \A k \in 1..Len(files_data) :
        Assigned(k) => is_already_prefixed(files_data[k].new_filename)

\* C18: in a batch of pairwise distinct filenames the plain name of a record
\* is never among the names reserved before it, whatever the filenames look
\* like, and every new_filename is the prefix, one blank and the filename.
C18_NoCollisionInListing ==
    \A k \in 1..Len(files_data) :
        Assigned(k) =>
            LET r == files_data[k]
            IN  /\ ExpectedPlain(r) \notin Earlier(k)
                /\ r.new_filename = ExpectedPlain(r)

\* a name that reads like the millisecond suffix follows, at the same second,
\* a record whose prefix has the suffix
C18_Witness ==
    /\ Len(files_data) = 3
    /\ idx = 4
    /\ files_data[1].filename = Name_pic
    /\ files_data[1].final_date = T_submilli
    /\ files_data[2].filename = Name_dot000
    /\ files_data[2].final_date = T_midnight
    /\ files_data[3].filename = Name_000
    /\ files_data[3].final_date = T_midnight
    /\ Cardinality(existing_names) = 3

====
